---- MODULE Spec2Model ----
(***************************************************************************)
(* A model of the agent-policies repository: the canonical event and       *)
(* decision data model (server/common/models.py), the example middleware   *)
(* and rules (example/main.py), the policy evaluation pipeline that runs   *)
(* them (registry and executor), and the layered configuration loader      *)
(* (client/config.py).                                                     *)
(*                                                                         *)
(* Commands are sequences of one-character strings, so that str.strip,     *)
(* str.split and the rules' regular expressions are computed character by  *)
(* character, as Python computes them.                                     *)
(***************************************************************************)
EXTENDS Integers, Sequences, FiniteSets, TLC

(***************************************************************************)
(* Bounds of the model.                                                    *)
(***************************************************************************)
\* most decisions in one collected list of the precedence specification
MaxDecisions == 3
\* most evaluations in flight at once in the concurrent specification
MaxEvals == 2
\* most register_middleware calls at startup
MaxMiddleware == 2

\* Python's None
None == "None"

(***************************************************************************)
(* Characters and strings.                                                 *)
(***************************************************************************)
SP == " "
TAB == "\t"

\* the characters str.strip() removes and \s matches, within the model's alphabet
IsWs(ch) == ch \in {SP, TAB}

W_terraform == <<"t","e","r","r","a","f","o","r","m">>
W_apply == <<"a","p","p","l","y">>
W_plan == <<"p","l","a","n">>
W_fmt == <<"f","m","t">>
W_pip == <<"p","i","p">>
W_install == <<"i","n","s","t","a","l","l">>
W_python == <<"p","y","t","h","o","n">>
W_test == <<"t","e","s","t">>
W_test_ == <<"t","e","s","t","_">>
W_dotpy == <<".","p","y">>
W_script_py == <<"s","c","r","i","p","t",".","p","y">>
W_test_a_py == <<"t","e","s","t","_","a",".","p","y">>
W_dash_m == <<"-","m">>
W_ls == <<"l","s">>
W_andand == <<"&","&">>
\* the separator of bash_split_middleware, ' && '
SEP == <<SP, "&", "&", SP>>

\* s[i..] (Python s[i-1:])
Tail_(s, i) == SubSeq(s, i, Len(s))

\* whether w occurs in s at position p
OccursAt(s, p, w) ==
    /\ p >= 1
    /\ p + Len(w) - 1 <= Len(s)
    /\ SubSeq(s, p, p + Len(w) - 1) = w

\* Python: w in s
Contains(s, w) == \E p \in 1..(Len(s) + 1) : OccursAt(s, p, w)

\* Python: s.strip()
strip(s) ==
    LET keep == {i \in 1..Len(s) : ~IsWs(s[i])}
    IN  IF keep = {} THEN <<>>
        ELSE LET lo == CHOOSE i \in keep : \A j \in keep : i <= j
                 hi == CHOOSE i \in keep : \A j \in keep : j <= i
             IN  SubSeq(s, lo, hi)

\* Python: s.split(sep), the leftmost non-overlapping occurrences of sep
RECURSIVE split(_, _)
split(s, sep) ==
    IF ~Contains(s, sep) THEN <<s>>
    ELSE LET p == CHOOSE q \in 1..Len(s) :
                      /\ OccursAt(s, q, sep)
                      /\ \A r \in 1..(q - 1) : ~OccursAt(s, r, sep)
         IN  <<SubSeq(s, 1, p - 1)>> \o split(Tail_(s, p + Len(sep)), sep)

(***************************************************************************)
(* Regular expressions, as the sets of positions a match can end at: each  *)
(* operator takes the set P of positions reached so far (a position is the *)
(* index of the next character to read) and gives the positions after one  *)
(* more piece of the pattern. re.match succeeds iff the last set is not    *)
(* empty, which is what backtracking decides.                              *)
(***************************************************************************)
\* a literal
ReLit(s, P, w) == {p + Len(w) : p \in {q \in P : OccursAt(s, q, w)}}
\* 3?
ReOpt(s, P, w) == P \cup ReLit(s, P, w)
\* \s+
ReWsPlus(s, P) ==
    {q \in 2..(Len(s) + 1) : \E p \in P : p < q /\ \A k \in p..(q - 1) : IsWs(s[k])}
\* .*
ReDotStar(s, P) == {q \in 1..(Len(s) + 1) : \E p \in P : p <= q}
\* (?:\s|$)
ReWsOrEnd(s, P) ==
    {p \in P : p = Len(s) + 1} \cup {p + 1 : p \in {q \in P : q <= Len(s) /\ IsWs(s[q])}}
\* [^-]
ReNotDash(s, P) == {p + 1 : p \in {q \in P : q <= Len(s) /\ s[q] # "-"}}
\* python3?\s+
RePythonWs(s) == ReWsPlus(s, ReOpt(s, ReLit(s, {1}, W_python), <<"3">>))

\* ^terraform\s+apply(?:\s|$)
MatchTerraformApply(s) ==
    ReWsOrEnd(s, ReLit(s, ReWsPlus(s, ReLit(s, {1}, W_terraform)), W_apply)) # {}
\* ^terraform\s+(fmt|plan)(?:\s|$)
MatchTerraformFmtPlan(s) ==
    LET P == ReWsPlus(s, ReLit(s, {1}, W_terraform))
    IN  ReWsOrEnd(s, ReLit(s, P, W_fmt) \cup ReLit(s, P, W_plan)) # {}
\* python3?\s+.*test_.*\.py
MatchPythonTestFile(s) ==
    ReLit(s, ReDotStar(s, ReLit(s, ReDotStar(s, RePythonWs(s)), W_test_)), W_dotpy) # {}
\* ^pip(?:\s|$)
MatchPip(s) == ReWsOrEnd(s, ReLit(s, {1}, W_pip)) # {}
\* ^python3?\s+-m\s+pip(?:\s|$)
MatchPythonMPip(s) ==
    ReWsOrEnd(s, ReLit(s, ReWsPlus(s, ReLit(s, RePythonWs(s), W_dash_m)), W_pip)) # {}
\* ^python3?\s+[^-]
MatchPythonScript(s) == ReNotDash(s, RePythonWs(s)) # {}
\* ^python3?\s+.*test
MatchPythonTest(s) == ReLit(s, ReDotStar(s, RePythonWs(s)), W_test) # {}

(***************************************************************************)
(* The data model (server/common/models.py).                               *)
(***************************************************************************)
ALLOW == "allow"
DENY == "deny"
ASK == "ask"
HALT == "halt"
PolicyAction == {ALLOW, DENY, ASK, HALT}

\* a mis-ordered table: DENY put before HALT
POLICY_PRECEDENCE_DenyFirst == <<DENY, HALT, ASK, ALLOW>>

\* highest priority first
POLICY_PRECEDENCE == <<HALT, DENY, ASK, ALLOW>>

PolicyDecision(action, reason) == [kind |-> "decision", action |-> action, reason |-> reason]
PolicyGuidance(content) == [kind |-> "guidance", content |-> content]

\* command=None: a one-element sequence holding None, which no string equals
NoCommand == <<None>>

ToolUseEvent(session_id, tool_name, tool_is_bash, command) ==
    [variant |-> "ToolUseEvent", session_id |-> session_id, tool_name |-> tool_name,
     tool_is_bash |-> tool_is_bash, command |-> command]

PromptSubmitEvent(session_id, prompt) ==
    [variant |-> "PromptSubmitEvent", session_id |-> session_id, prompt |-> prompt]

(***************************************************************************)
(* The example middleware and rules (example/main.py). A generator's run   *)
(* is the record of what it yielded (out) and whether it ended by raising  *)
(* (raised); a middleware's run also holds its argument object as the call *)
(* left it (arg).                                                          *)
(***************************************************************************)
\* (the reasons' backquotes are written as quotes)
R_TERRAFORM == "terraform apply is not allowed. Use 'terraform plan' instead."
R_PYTEST == "Use 'pytest' to run tests instead of python directly."
G_PYTEST == "Consider using pytest with specific test markers or paths."
R_UV_PIP == "Use 'uv' instead of pip for package management."
G_UV_PIP == "Replace 'pip install' with 'uv pip install' or 'uv add' for dependency management."
R_UV_MPIP == "Use 'uv' instead of python -m pip."
R_UV_RUN == "Use 'uv run python' to execute scripts."

Yields(out) == [out |-> out, raised |-> FALSE]
\* None.strip(): AttributeError, before anything was yielded
Raises == [out |-> <<>>, raised |-> TRUE]

\* the sub-commands bash_split_middleware yields for a command holding ' && '
SplitCommands(command) ==
    LET parts == split(command, SEP)
        kept == SelectSeq(parts, LAMBDA cmd : strip(cmd) # <<>>)
    IN  [k \in 1..Len(kept) |-> strip(kept[k])]

\* a split that yields nothing for an event it does not apply to
bash_split_middleware_Drop(input_data) ==
    IF ~input_data.tool_is_bash \/ input_data.command \in {NoCommand, <<>>}
    THEN [out |-> <<>>, raised |-> FALSE, arg |-> input_data]
    ELSE IF Contains(input_data.command, SEP)
    THEN [out |-> [k \in 1..Len(SplitCommands(input_data.command)) |->
                     [input_data EXCEPT !.command = SplitCommands(input_data.command)[k]]],
          raised |-> FALSE, arg |-> input_data]
    ELSE [out |-> <<input_data>>, raised |-> FALSE, arg |-> input_data]

\* a split that keeps the empty sub-commands
bash_split_middleware_KeepEmpty(input_data) ==
    IF ~input_data.tool_is_bash \/ input_data.command \in {NoCommand, <<>>}
    THEN [out |-> <<input_data>>, raised |-> FALSE, arg |-> input_data]
    ELSE IF Contains(input_data.command, SEP)
    THEN [out |-> [k \in 1..Len(split(input_data.command, SEP)) |->
                     [input_data EXCEPT !.command = strip(split(input_data.command, SEP)[k])]],
          raised |-> FALSE, arg |-> input_data]
    ELSE [out |-> <<input_data>>, raised |-> FALSE, arg |-> input_data]

\* a split that writes each sub-command into the event it was given
bash_split_middleware_InPlace(input_data) ==
    IF ~input_data.tool_is_bash \/ input_data.command \in {NoCommand, <<>>}
    THEN [out |-> <<input_data>>, raised |-> FALSE, arg |-> input_data]
    ELSE IF Contains(input_data.command, SEP)
    THEN LET cmds == SplitCommands(input_data.command)
         IN  [out |-> [k \in 1..Len(cmds) |-> [input_data EXCEPT !.command = cmds[k]]],
              raised |-> FALSE,
              arg |-> IF cmds = <<>> THEN input_data
                      ELSE [input_data EXCEPT !.command = cmds[Len(cmds)]]]
    ELSE [out |-> <<input_data>>, raised |-> FALSE, arg |-> input_data]

\* a split that yields the sub-commands untrimmed
bash_split_middleware_NoTrim(input_data) ==
    IF ~input_data.tool_is_bash \/ input_data.command \in {NoCommand, <<>>}
    THEN [out |-> <<input_data>>, raised |-> FALSE, arg |-> input_data]
    ELSE IF Contains(input_data.command, SEP)
    THEN LET kept == SelectSeq(split(input_data.command, SEP), LAMBDA cmd : strip(cmd) # <<>>)
         IN  [out |-> [k \in 1..Len(kept) |-> [input_data EXCEPT !.command = kept[k]]],
              raised |-> FALSE, arg |-> input_data]
    ELSE [out |-> <<input_data>>, raised |-> FALSE, arg |-> input_data]

\* a split that never splits
bash_split_middleware_NoSplit(input_data) ==
    [out |-> <<input_data>>, raised |-> FALSE, arg |-> input_data]

bash_split_middleware(input_data) ==
    IF ~input_data.tool_is_bash \/ input_data.command \in {NoCommand, <<>>}
    THEN [out |-> <<input_data>>, raised |-> FALSE, arg |-> input_data]
    ELSE IF Contains(input_data.command, SEP)
    THEN [out |-> [k \in 1..Len(SplitCommands(input_data.command)) |->
                     [input_data EXCEPT !.command = SplitCommands(input_data.command)[k]]],
          raised |-> FALSE, arg |-> input_data]
    ELSE [out |-> <<input_data>>, raised |-> FALSE, arg |-> input_data]

\* a rule whose denial carries no reason
terraform_rule_NoReason(input_data) ==
    IF ~input_data.tool_is_bash THEN Yields(<<>>)
    ELSE IF input_data.command = NoCommand THEN Raises
    ELSE LET command == strip(input_data.command)
         IN  Yields((IF MatchTerraformApply(command)
                     THEN <<PolicyDecision(DENY, None)>> ELSE <<>>)
                    \o (IF MatchTerraformFmtPlan(command)
                        THEN <<PolicyDecision(ALLOW, None)>> ELSE <<>>))

terraform_rule(input_data) ==
    IF ~input_data.tool_is_bash THEN Yields(<<>>)
    ELSE IF input_data.command = NoCommand THEN Raises
    ELSE LET command == strip(input_data.command)
         IN  Yields((IF MatchTerraformApply(command)
                     THEN <<PolicyDecision(DENY, R_TERRAFORM)>> ELSE <<>>)
                    \o (IF MatchTerraformFmtPlan(command)
                        THEN <<PolicyDecision(ALLOW, None)>> ELSE <<>>))

\* a rule that stops after its decision
python_test_file_rule_NoGuidance(input_data) ==
    IF ~input_data.tool_is_bash THEN Yields(<<>>)
    ELSE IF input_data.command = NoCommand THEN Raises
    ELSE IF MatchPythonTestFile(strip(input_data.command))
    THEN Yields(<<PolicyDecision(DENY, R_PYTEST)>>)
    ELSE Yields(<<>>)

python_test_file_rule(input_data) ==
    IF ~input_data.tool_is_bash THEN Yields(<<>>)
    ELSE IF input_data.command = NoCommand THEN Raises
    ELSE IF MatchPythonTestFile(strip(input_data.command))
    THEN Yields(<<PolicyDecision(DENY, R_PYTEST), PolicyGuidance(G_PYTEST)>>)
    ELSE Yields(<<>>)

uv_bundle_rule(input_data) ==
    IF ~input_data.tool_is_bash THEN Yields(<<>>)
    ELSE IF input_data.command = NoCommand THEN Raises
    ELSE LET command == strip(input_data.command)
         IN  IF MatchPip(command)
             THEN Yields(<<PolicyDecision(DENY, R_UV_PIP), PolicyGuidance(G_UV_PIP)>>)
             ELSE IF MatchPythonMPip(command)
             THEN Yields(<<PolicyDecision(DENY, R_UV_MPIP)>>)
             ELSE IF MatchPythonScript(command) /\ ~MatchPythonTest(command)
             THEN Yields(<<PolicyDecision(DENY, R_UV_RUN)>>)
             ELSE Yields(<<>>)

\* the registered callables, by name
Handlers == {"terraform_rule", "python_test_file_rule", "uv_bundle_rule"}
Middlewares == {"bash_split_middleware"}

CallHandler(fn, event) ==
    CASE fn = "terraform_rule" -> terraform_rule(event)
      [] fn = "python_test_file_rule" -> python_test_file_rule(event)
      [] fn = "uv_bundle_rule" -> uv_bundle_rule(event)

CallMiddleware(fn, event) ==
    CASE fn = "bash_split_middleware" -> bash_split_middleware(event)

(***************************************************************************)
(* The registry: per event variant, the middleware and the handlers in     *)
(* registration order, a handler with its optional bundle.                 *)
(***************************************************************************)
Variants == {"ToolUseEvent", "PromptSubmitEvent"}
\* the bundle names a registration or a request may use
Bundles == {"uv", "strict"}

EmptyRegistry ==
    [middleware |-> [v \in Variants |-> <<>>], handlers |-> [v \in Variants |-> <<>>]]

register_middleware(reg, event_type, fn) ==
    [reg EXCEPT !.middleware[event_type] = Append(@, fn)]

register_handler(reg, event_type, fn, bundle) ==
    [reg EXCEPT !.handlers[event_type] = Append(@, [fn |-> fn, bundle |-> bundle])]

middleware_for(reg, event_type) == reg.middleware[event_type]
handlers_for(reg, event_type) == reg.handlers[event_type]

\* the example's registration with uv_bundle_rule registered without its bundle
ExampleRegistry_NoBundle ==
    register_handler(
        register_handler(
            register_handler(
                register_middleware(EmptyRegistry, "ToolUseEvent", "bash_split_middleware"),
                "ToolUseEvent", "terraform_rule", None),
            "ToolUseEvent", "python_test_file_rule", None),
        "ToolUseEvent", "uv_bundle_rule", None)

\* the registry the example server builds before it serves
ExampleRegistry ==
    register_handler(
        register_handler(
            register_handler(
                register_middleware(EmptyRegistry, "ToolUseEvent", "bash_split_middleware"),
                "ToolUseEvent", "terraform_rule", None),
            "ToolUseEvent", "python_test_file_rule", None),
        "ToolUseEvent", "uv_bundle_rule", "uv")

(***************************************************************************)
(* The executor: the middleware stage (a flat map per middleware), the     *)
(* handler stage (every eligible handler on every surviving event), the    *)
(* aggregation in emission order and the resolution by precedence.         *)
(***************************************************************************)
\* one middleware over every event of the previous stage; a middleware that
\* raises has emitted what it emitted, and the next event is still processed
RECURSIVE ApplyMiddleware(_, _)
ApplyMiddleware(fn, events) ==
    IF events = <<>> THEN <<>>
    ELSE CallMiddleware(fn, Head(events)).out \o ApplyMiddleware(fn, Tail(events))

RECURSIVE MiddlewareStage(_, _)
MiddlewareStage(mws, events) ==
    IF mws = <<>> THEN events
    ELSE MiddlewareStage(Tail(mws), ApplyMiddleware(Head(mws), events))

Eligible(entry, bundles) == entry.bundle = None \/ entry.bundle \in bundles

HandlerSchedule(nE, nH) ==
    [k \in 1..(nE * nH) |-> [ev |-> ((k - 1) \div nH) + 1, h |-> ((k - 1) % nH) + 1]]

NoneCollected == [decisions |-> <<>>, guidance |-> <<>>, runs |-> <<>>]

\* the results of one run, each tagged with where it was emitted
Tagged(out, kind, ev, h) ==
    LET idx == SelectSeq([y \in 1..Len(out) |-> y], LAMBDA y : out[y].kind = kind)
    IN  [k \in 1..Len(idx) |->
            IF kind = "decision"
            THEN [action |-> out[idx[k]].action, reason |-> out[idx[k]].reason,
                  ev |-> ev, h |-> h, y |-> idx[k]]
            ELSE [content |-> out[idx[k]].content, ev |-> ev, h |-> h, y |-> idx[k]]]

CollectOne(acc, events, handlers, bundles, slot) ==
    IF ~Eligible(handlers[slot.h], bundles) THEN acc
    ELSE LET r == CallHandler(handlers[slot.h].fn, events[slot.ev])
         IN  [decisions |-> acc.decisions \o Tagged(r.out, "decision", slot.ev, slot.h),
              guidance |-> acc.guidance \o Tagged(r.out, "guidance", slot.ev, slot.h),
              runs |-> Append(acc.runs, [ev |-> slot.ev, h |-> slot.h, raised |-> r.raised])]

RECURSIVE HandlerStage(_, _, _, _, _)
HandlerStage(acc, events, handlers, bundles, k) ==
    LET sched == HandlerSchedule(Len(events), Len(handlers))
    IN  IF k > Len(sched) THEN acc
        ELSE HandlerStage(CollectOne(acc, events, handlers, bundles, sched[k]),
                          events, handlers, bundles, k + 1)

ResolveAction(decisions, default) ==
    LET present == {decisions[k].action : k \in 1..Len(decisions)}
        hits == {k \in 1..Len(POLICY_PRECEDENCE) : POLICY_PRECEDENCE[k] \in present}
    IN  IF hits = {} THEN (IF default = None THEN ALLOW ELSE default)
        ELSE POLICY_PRECEDENCE[CHOOSE k \in hits : \A j \in hits : k <= j]

ResolveReason(decisions, action) ==
    LET at == {k \in 1..Len(decisions) : decisions[k].action = action}
    IN  IF at = {} THEN None
        ELSE decisions[CHOOSE k \in at : \A j \in at : k <= j].reason

Verdict(decisions, guidance, default) ==
    LET action == ResolveAction(decisions, default)
    IN  [action |-> action,
         reason |-> ResolveReason(decisions, action),
         guidance |-> [k \in 1..Len(guidance) |-> guidance[k].content]]

\* one whole evaluation, run alone
evaluate(reg, bundles, default, event) ==
    LET events == MiddlewareStage(middleware_for(reg, event.variant), <<event>>)
        acc == HandlerStage(NoneCollected, events, handlers_for(reg, event.variant), bundles, 1)
    IN  Verdict(acc.decisions, acc.guidance, default)

(***************************************************************************)
(* The configuration loader (client/config.py). A dict is a function from  *)
(* its keys; a file is missing, unreadable, not JSON, or holds a dict.     *)
(***************************************************************************)
ConfigKeys == {"bundles", "editor", "server_url", "default_policy_behavior"}

\* ConfigManager.DEFAULT_CONFIG as the class is created
DEFAULT_CONFIG_0 ==
    [bundles |-> <<>>, editor |-> "claude-code", server_url |-> "http://localhost:8338"]

EmptyDict == [k \in {} |-> None]

\* dict.update
Update(d, e) == [k \in DOMAIN d \cup DOMAIN e |-> IF k \in DOMAIN e THEN e[k] ELSE d[k]]

\* _load_config_file: {} for a file that is not there or fails to load
load_config_file(file) ==
    IF file.kind = "missing" THEN EmptyDict
    ELSE IF file.kind \in {"invalid", "unreadable"} THEN EmptyDict
    ELSE file.value

merge_configs_HomeLast(defaults, home_config, project_config) ==
    [merged |-> Update(Update(defaults, project_config), home_config),
     DEFAULT_CONFIG |-> defaults]

\* _merge_configs: the merged dict, and DEFAULT_CONFIG as the call leaves it
merge_configs(defaults, home_config, project_config) ==
    [merged |-> Update(Update(defaults, home_config), project_config),
     DEFAULT_CONFIG |-> defaults]

(***************************************************************************)
(* The hook forwarder (client/client.py, forward_hook). The policy server  *)
(* is what requests.post meets: a response with a status and a body that   *)
(* is JSON or not, a refused connection, or another failure of the         *)
(* transport. A call ends by returning an exit code or by raising.         *)
(***************************************************************************)
\* the attributes class ConfigManager defines
ConfigManager_attrs ==
    {"DEFAULT_CONFIG", "_load_config_file", "_merge_configs", "load_config",
     "get_enabled_bundles", "get_editor", "get_server_url", "ensure_config_directories"}

\* dict.get(key), None for a key that is not there
Get(d, key) == IF key \in DOMAIN d THEN d[key] ELSE None

\* ConfigManager.get_server_url(config)
get_server_url(cfg) ==
    IF "server_url" \in DOMAIN cfg THEN cfg["server_url"] ELSE "http://localhost:8338"

\* forward_hook from the reading of the payload on, default_behavior being
\* config's default_policy_behavior
forward_hook_rest(cfg, editor, bundles, payload, server) ==
    LET Returned(code, requests) ==
            [kind |-> "returned", code |-> code, requests |-> requests]
        server_url == get_server_url(cfg)
        default_behavior == Get(cfg, "default_policy_behavior")
        hook_event_name == Get(payload, "hook_event_name")
        wrapped_payload == [bundles |-> bundles,
                            default_policy_behavior |-> default_behavior,
                            event |-> payload]
        sent == <<[url |-> <<server_url, "/policy/", editor, "/", hook_event_name>>,
                   json |-> wrapped_payload]>>
    IN  IF hook_event_name \in {None, ""} THEN Returned(2, <<>>)
        ELSE IF server.kind = "refused" THEN Returned(2, sent)
        ELSE IF server.kind = "failure" THEN Returned(2, sent)
        ELSE IF server.status # 200 THEN Returned(2, sent)
        ELSE IF ~server.json THEN Returned(2, sent)
        ELSE Returned(0, sent)

\* forward_hook(editor, bundles, payload), config being what load_config
\* returned: ConfigManager.get_default_policy_behavior is looked up before
\* the payload is read and outside the try block
forward_hook(cfg, editor, bundles, payload, server) ==
    IF "get_default_policy_behavior" \notin ConfigManager_attrs
    THEN [kind |-> "raised", exc |-> "AttributeError", requests |-> <<>>]
    ELSE forward_hook_rest(cfg, editor, bundles, payload, server)

(***************************************************************************)
(* Hook installation (client/client.py). A settings file is missing, not   *)
(* parseable, or holds a JSON object: a dict is a function from its keys.  *)
(* Where the code tests the type of a value (the value of an event, an     *)
(* item of its list, a hook of a group) the value carries its type, as the *)
(* one field it has: a list of items, a dict, or a string.                 *)
(***************************************************************************)
JList(items) == [list |-> items]
JDict(d) == [dict |-> d]
JStr(s) == [str |-> s]

HOOK_CONFIG == [matcher |-> "*", type |-> "command", command |-> "devleaps-policy-client"]

CLAUDE_HOOK_EVENTS ==
    <<"PreToolUse", "PostToolUse", "UserPromptSubmit", "Stop", "SubagentStop",
      "Notification", "PreCompact", "SessionStart", "SessionEnd">>

CURSOR_HOOK_EVENTS ==
    <<"beforeShellExecution", "beforeMCPExecution", "afterFileEdit", "beforeReadFile",
      "beforeSubmitPrompt", "stop">>

\* isinstance(hook, dict) and hook.get("command") == "devleaps-policy-client"
IsOurHook(hook) ==
    "dict" \in DOMAIN hook /\ Get(hook.dict, "command") = "devleaps-policy-client"

\* a group (a dict with "hooks") one of whose hooks is ours
IsOurGroup(group) ==
    /\ "dict" \in DOMAIN group
    /\ "hooks" \in DOMAIN group.dict
    /\ \E k \in 1..Len(group.dict["hooks"]) : IsOurHook(group.dict["hooks"][k])

\* hooks[event] if isinstance(hooks[event], list) else []
EventHooks(hooks, event) ==
    IF "list" \in DOMAIN hooks[event] THEN hooks[event].list ELSE <<>>

\* what an install or uninstall run leaves: the file, the exit code, whether
\* it reported changes and whether it wrote the file
Ran(file, code, changes_made, wrote) ==
    [file |-> file, code |-> code, changes_made |-> changes_made, wrote |-> wrote]

\* the settings an install run starts from: the file's if it is there and
\* parses, else fresh ones, with an empty "hooks" section if it has none
LoadSettings(file, fresh) ==
    LET settings == IF file.kind = "json" THEN file.value ELSE fresh
    IN  IF "hooks" \in DOMAIN settings THEN settings
        ELSE Update(settings, [hooks |-> EmptyDict])

\* one round of install_claude_hooks' loop that appends whether found or not
install_claude_event_Always(acc, event) ==
    LET hooks == IF event \in DOMAIN acc.hooks THEN acc.hooks
                 ELSE Update(acc.hooks, event :> JList(<<>>))
        event_hooks == EventHooks(hooks, event)
    IN  [hooks |-> Update(hooks, event :> JList(Append(event_hooks,
                                     JDict([hooks |-> <<JDict(HOOK_CONFIG)>>])))),
         changes_made |-> TRUE]

\* one round of install_claude_hooks' loop
install_claude_event(acc, event) ==
    LET hooks == IF event \in DOMAIN acc.hooks THEN acc.hooks
                 ELSE Update(acc.hooks, event :> JList(<<>>))
        event_hooks == EventHooks(hooks, event)
        found == \E g \in 1..Len(event_hooks) : IsOurGroup(event_hooks[g])
    IN  IF found
        THEN [hooks |-> Update(hooks, event :> JList(event_hooks)),
              changes_made |-> acc.changes_made]
        ELSE [hooks |-> Update(hooks, event :> JList(Append(event_hooks,
                                          JDict([hooks |-> <<JDict(HOOK_CONFIG)>>])))),
              changes_made |-> TRUE]

\* one round of install_cursor_hooks' loop
install_cursor_event(acc, event) ==
    LET hooks == IF event \in DOMAIN acc.hooks THEN acc.hooks
                 ELSE Update(acc.hooks, event :> JList(<<>>))
        event_hooks == EventHooks(hooks, event)
        found == \E k \in 1..Len(event_hooks) : IsOurHook(event_hooks[k])
    IN  IF found
        THEN [hooks |-> Update(hooks, event :> JList(event_hooks)),
              changes_made |-> acc.changes_made]
        ELSE [hooks |-> Update(hooks, event :> JList(Append(event_hooks,
                                          JDict([command |-> "devleaps-policy-client"])))),
              changes_made |-> TRUE]

\* one round of uninstall_claude_hooks' loop: the groups holding our hook go
uninstall_claude_event(acc, event) ==
    IF event \notin DOMAIN acc.hooks THEN acc
    ELSE LET event_hooks == EventHooks(acc.hooks, event)
             kept == SelectSeq(event_hooks, LAMBDA group : ~IsOurGroup(group))
         IN  IF Len(kept) < Len(event_hooks)
             THEN [hooks |-> Update(acc.hooks, event :> JList(kept)), changes_made |-> TRUE]
             ELSE acc

\* one round of uninstall_cursor_hooks' loop: our hooks go
uninstall_cursor_event(acc, event) ==
    IF event \notin DOMAIN acc.hooks THEN acc
    ELSE LET event_hooks == EventHooks(acc.hooks, event)
             kept == SelectSeq(event_hooks, LAMBDA hook : ~IsOurHook(hook))
         IN  IF Len(kept) < Len(event_hooks)
             THEN [hooks |-> Update(acc.hooks, event :> JList(kept)), changes_made |-> TRUE]
             ELSE acc

\* one round of the loop of fn
loop_body(fn, acc, event) ==
    CASE fn = "install_claude_hooks" -> install_claude_event(acc, event)
      [] fn = "install_cursor_hooks" -> install_cursor_event(acc, event)
      [] fn = "uninstall_claude_hooks" -> uninstall_claude_event(acc, event)
      [] fn = "uninstall_cursor_hooks" -> uninstall_cursor_event(acc, event)

\* for event in events, from the k-th event on
RECURSIVE for_events(_, _, _, _)
for_events(fn, events, acc, k) ==
    IF k > Len(events) THEN acc
    ELSE for_events(fn, events, loop_body(fn, acc, events[k]), k + 1)

install_claude_hooks(file) ==
    LET settings == LoadSettings(file, EmptyDict)
        done == for_events("install_claude_hooks", CLAUDE_HOOK_EVENTS,
                           [hooks |-> settings["hooks"], changes_made |-> FALSE], 1)
    IN  IF done.changes_made
        THEN Ran([kind |-> "json", value |-> Update(settings, [hooks |-> done.hooks])],
                 0, TRUE, TRUE)
        ELSE Ran(file, 0, FALSE, FALSE)

install_cursor_hooks(file) ==
    LET hooks_config == LoadSettings(file, [version |-> 1, hooks |-> EmptyDict])
        done == for_events("install_cursor_hooks", CURSOR_HOOK_EVENTS,
                           [hooks |-> hooks_config["hooks"], changes_made |-> FALSE], 1)
    IN  IF done.changes_made
        THEN Ran([kind |-> "json", value |-> Update(hooks_config, [hooks |-> done.hooks])],
                 0, TRUE, TRUE)
        ELSE Ran(file, 0, FALSE, FALSE)

uninstall_claude_hooks(file) ==
    IF file.kind = "missing" THEN Ran(file, 0, FALSE, FALSE)
    ELSE IF file.kind = "invalid" THEN Ran(file, 1, FALSE, FALSE)
    ELSE IF "hooks" \notin DOMAIN file.value THEN Ran(file, 0, FALSE, FALSE)
    ELSE LET done == for_events("uninstall_claude_hooks", CLAUDE_HOOK_EVENTS,
                                [hooks |-> file.value["hooks"], changes_made |-> FALSE], 1)
         IN  IF done.changes_made
             THEN Ran([kind |-> "json", value |-> Update(file.value, [hooks |-> done.hooks])],
                      0, TRUE, TRUE)
             ELSE Ran(file, 0, FALSE, FALSE)

uninstall_cursor_hooks(file) ==
    IF file.kind = "missing" THEN Ran(file, 0, FALSE, FALSE)
    ELSE IF file.kind = "invalid" THEN Ran(file, 1, FALSE, FALSE)
    ELSE IF "hooks" \notin DOMAIN file.value THEN Ran(file, 0, FALSE, FALSE)
    ELSE LET done == for_events("uninstall_cursor_hooks", CURSOR_HOOK_EVENTS,
                                [hooks |-> file.value["hooks"], changes_made |-> FALSE], 1)
         IN  IF done.changes_made
             THEN Ran([kind |-> "json", value |-> Update(file.value, [hooks |-> done.hooks])],
                      0, TRUE, TRUE)
             ELSE Ran(file, 0, FALSE, FALSE)

(***************************************************************************)
(* The state.                                                              *)
(***************************************************************************)
VARIABLES
    phase,          \* "startup" while the registry is built, then "serving"
    registry,       \* the process-wide registry
    evals,          \* the evaluations in flight, one record per request slot
    collected,      \* precedence resolution: a collected list of decisions
    default_action, \* precedence resolution: the caller's default
    verdict,        \* precedence resolution: the verdict, once resolved
    home_file,      \* ~/.agent-policies/config.json
    project_file,   \* <project>/.agent-policies/config.json
    DEFAULT_CONFIG, \* ConfigManager.DEFAULT_CONFIG
    config,         \* what load_config returned last
    split_call,     \* a call of bash_split_middleware: its argument and its run
    hook,           \* a call of forward_hook: its arguments, the server, the outcome
    claude_settings, \* the file at CLAUDE_SETTINGS_PATH
    cursor_hooks,   \* the file at CURSOR_HOOKS_PATH
    cli             \* the last install or uninstall command and the one before

vars == <<phase, registry, evals, collected, default_action, verdict,
          home_file, project_file, DEFAULT_CONFIG, config,
          split_call, hook, claude_settings, cursor_hooks, cli>>
engine_vars == <<phase, registry, evals>>
resolve_vars == <<collected, default_action, verdict>>
config_vars == <<home_file, project_file, DEFAULT_CONFIG, config>>
client_vars == <<split_call, hook, claude_settings, cursor_hooks, cli>>

NoEvent == [variant |-> "none"]
NoVerdict == [action |-> None, reason |-> None, guidance |-> <<>>]
NotLoaded == [k \in {"not loaded"} |-> None]
\* no call made yet, no command run yet
NoCall == [pc |-> "none", cmd |-> "none", editor |-> "none"]

IdleEval ==
    [pc |-> "idle", input |-> NoEvent, given |-> NoEvent, bundles |-> {}, default |-> None,
     events |-> <<>>, stage |-> 0, pos |-> 0,
     decisions |-> <<>>, guidance |-> <<>>, runs |-> <<>>, result |-> NoVerdict]

(***************************************************************************)
(* The requests.                                                           *)
(***************************************************************************)
C_terraform_apply == W_terraform \o <<SP>> \o W_apply
C_terraform_plan == W_terraform \o <<SP>> \o W_plan
C_pip_install == W_pip \o <<SP>> \o W_install
C_python_script == W_python \o <<SP>> \o W_script_py
C_python_test == W_python \o <<SP>> \o W_test_a_py
C_pip_and_apply == C_pip_install \o SEP \o C_terraform_apply
C_plan_and_apply == C_terraform_plan \o SEP \o C_terraform_apply
C_python_m_pip_test == W_python \o <<SP>> \o W_dash_m \o <<SP>> \o W_pip \o <<SP>> \o W_test_a_py
C_and_apply == W_andand \o <<SP>> \o C_terraform_apply

\* the commands of the requests
Commands ==
    {C_terraform_apply, C_terraform_plan, C_pip_and_apply, C_plan_and_apply,
     C_python_m_pip_test,
     C_python_script, C_python_test, W_ls, SEP,
     <<SP, SP>> \o C_terraform_apply \o <<SP, SP>>,
     <<TAB>> \o C_terraform_plan \o <<TAB>>,
     <<SP>> \o C_and_apply}

\* the canonical events the adapter hands over
Events ==
    {ToolUseEvent("s1", "Bash", TRUE, c) : c \in Commands \cup {NoCommand}}
    \cup {ToolUseEvent("s1", "Read", FALSE, C_terraform_apply),
          PromptSubmitEvent("s1", "hello")}

\* the active-bundle sets and the defaults a caller supplies
BundleSets == SUBSET Bundles
Defaults == {None, ASK, DENY}

(***************************************************************************)
(* Startup: the registration calls.                                        *)
(***************************************************************************)
Registered(fn) ==
    \E k \in 1..Len(registry.handlers["ToolUseEvent"]) :
        registry.handlers["ToolUseEvent"][k].fn = fn

RegisterMiddleware ==
    /\ phase = "startup"
    /\ Len(registry.middleware["ToolUseEvent"]) < MaxMiddleware
    /\ registry' = register_middleware(registry, "ToolUseEvent", "bash_split_middleware")
    /\ UNCHANGED <<phase, evals, resolve_vars, config_vars, client_vars>>

RegisterHandler ==
    /\ phase = "startup"
    /\ \E fn \in Handlers, bundle \in {None, "uv"} :
          /\ ~Registered(fn)
          /\ registry' = register_handler(registry, "ToolUseEvent", fn, bundle)
    /\ UNCHANGED <<phase, evals, resolve_vars, config_vars, client_vars>>

\* registration ends and the server starts to serve
Serve ==
    /\ phase = "startup"
    /\ phase' = "serving"
    /\ UNCHANGED <<registry, evals, resolve_vars, config_vars, client_vars>>

(***************************************************************************)
(* Serving: one evaluation, step by step.                                  *)
(***************************************************************************)
\* a request arrives in slot i
StartFrom(i, events, bundleSets, defaults) ==
    /\ phase = "serving"
    /\ evals[i].pc = "idle"
    /\ \E event \in events, bundles \in bundleSets, default \in defaults :
          evals' = [evals EXCEPT ![i] =
                      [IdleEval EXCEPT !.pc = "middleware", !.input = event,
                                       !.given = event, !.bundles = bundles,
                                       !.default = default, !.events = <<event>>,
                                       !.stage = 1]]
    /\ UNCHANGED <<phase, registry, resolve_vars, config_vars, client_vars>>

Start(i) == StartFrom(i, Events, BundleSets, Defaults)

\* the next middleware of the pipeline, over every event of the stage before
MiddlewareStep(i) ==
    LET e == evals[i]
        mws == middleware_for(registry, e.input.variant)
    IN  /\ e.pc = "middleware"
        /\ e.stage <= Len(mws)
        /\ evals' = [evals EXCEPT ![i] =
                       [e EXCEPT !.events = ApplyMiddleware(mws[e.stage], e.events),
                                 !.input = IF e.stage = 1
                                           THEN CallMiddleware(mws[1], e.input).arg
                                           ELSE e.input,
                                 !.stage = e.stage + 1]]
        /\ UNCHANGED <<phase, registry, resolve_vars, config_vars, client_vars>>

\* the pipeline is through
BeginHandlers(i) ==
    LET e == evals[i]
    IN  /\ e.pc = "middleware"
        /\ e.stage > Len(middleware_for(registry, e.input.variant))
        /\ evals' = [evals EXCEPT ![i] = [e EXCEPT !.pc = "handlers", !.pos = 1]]
        /\ UNCHANGED <<phase, registry, resolve_vars, config_vars, client_vars>>

\* the next handler on the next event
HandlerStep(i) ==
    LET e == evals[i]
        hs == handlers_for(registry, e.input.variant)
        sched == HandlerSchedule(Len(e.events), Len(hs))
    IN  /\ e.pc = "handlers"
        /\ e.pos <= Len(sched)
        /\ LET acc == CollectOne([decisions |-> e.decisions, guidance |-> e.guidance,
                                  runs |-> e.runs],
                                 e.events, hs, e.bundles, sched[e.pos])
           IN  evals' = [evals EXCEPT ![i] =
                           [e EXCEPT !.decisions = acc.decisions,
                                     !.guidance = acc.guidance,
                                     !.runs = acc.runs,
                                     !.pos = e.pos + 1]]
        /\ UNCHANGED <<phase, registry, resolve_vars, config_vars, client_vars>>

\* precedence resolution
Resolve(i) ==
    LET e == evals[i]
        hs == handlers_for(registry, e.input.variant)
    IN  /\ e.pc = "handlers"
        /\ e.pos > Len(HandlerSchedule(Len(e.events), Len(hs)))
        /\ evals' = [evals EXCEPT ![i] =
                       [e EXCEPT !.pc = "done",
                                 !.result = Verdict(e.decisions, e.guidance, e.default)]]
        /\ UNCHANGED <<phase, registry, resolve_vars, config_vars, client_vars>>

\* the verdict is returned; nothing of the evaluation is kept
Respond(i) ==
    /\ evals[i].pc = "done"
    /\ evals' = [evals EXCEPT ![i] = IdleEval]
    /\ UNCHANGED <<phase, registry, resolve_vars, config_vars, client_vars>>

Evaluate(i) ==
    \/ MiddlewareStep(i)
    \/ BeginHandlers(i)
    \/ HandlerStep(i)
    \/ Resolve(i)
    \/ Respond(i)

ConfigIdle ==
    /\ home_file = [kind |-> "missing"]
    /\ project_file = [kind |-> "missing"]
    /\ DEFAULT_CONFIG = DEFAULT_CONFIG_0
    /\ config = NotLoaded

ResolveIdle ==
    /\ collected = <<>>
    /\ default_action = None
    /\ verdict = NoVerdict

ClientIdle ==
    /\ split_call = NoCall
    /\ hook = NoCall
    /\ claude_settings = [kind |-> "missing"]
    /\ cursor_hooks = [kind |-> "missing"]
    /\ cli = NoCall

Init ==
    /\ phase = "startup"
    /\ registry = EmptyRegistry
    /\ evals = [i \in 1..1 |-> IdleEval]
    /\ ResolveIdle
    /\ ConfigIdle
    /\ ClientIdle

Next ==
    \/ RegisterMiddleware
    \/ RegisterHandler
    \/ Serve
    \/ \E i \in DOMAIN evals : Start(i) \/ Evaluate(i)

Spec == Init /\ [][Next]_vars

(***************************************************************************)
(* Concurrent serving: MaxEvals requests in flight over the registry the   *)
(* example server built.                                                   *)
(***************************************************************************)
ConcurrentEvents ==
    {ToolUseEvent("s1", "Bash", TRUE, c) : c \in {C_pip_and_apply, C_python_test, NoCommand}}

StartConcurrent(i) == StartFrom(i, ConcurrentEvents, {{}, {"uv"}}, {None})

InitConcurrent ==
    /\ phase = "serving"
    /\ registry = ExampleRegistry
    /\ evals = [i \in 1..MaxEvals |-> IdleEval]
    /\ ResolveIdle
    /\ ConfigIdle
    /\ ClientIdle

NextConcurrent == \E i \in DOMAIN evals : StartConcurrent(i) \/ Evaluate(i)

SpecConcurrent == InitConcurrent /\ [][NextConcurrent]_vars

(***************************************************************************)
(* Precedence resolution as a function of the collected decisions: any     *)
(* list of at most MaxDecisions decisions, as emitted by that many         *)
(* handlers on one event.                                                  *)
(***************************************************************************)
Reasons == {None, "first reason", "second reason"}

DecisionLists ==
    UNION {[1..n -> [action : PolicyAction, reason : Reasons]] : n \in 0..MaxDecisions}

InitResolve ==
    /\ phase = "resolving"
    /\ registry = EmptyRegistry
    /\ evals = [i \in 1..1 |-> IdleEval]
    /\ \E ds \in DecisionLists :
          collected = [k \in 1..Len(ds) |->
                         [action |-> ds[k].action, reason |-> ds[k].reason,
                          ev |-> 1, h |-> k, y |-> 1]]
    /\ default_action \in {None} \cup PolicyAction
    /\ verdict = NoVerdict
    /\ ConfigIdle
    /\ ClientIdle

ResolveCollected ==
    /\ phase = "resolving"
    /\ verdict = NoVerdict
    /\ verdict' = Verdict(collected, <<>>, default_action)
    /\ UNCHANGED <<engine_vars, collected, default_action, config_vars, client_vars>>

\* the engine, and the resolution on its own
InitPrecedence == Init \/ InitResolve
NextPrecedence == Next \/ ResolveCollected
SpecPrecedence == InitPrecedence /\ [][NextPrecedence]_vars

(***************************************************************************)
(* Loading the configuration.                                              *)
(***************************************************************************)
FullConfigs ==
    [bundles : {<<"uv">>, <<"uv", "strict">>},
     editor : {"cursor", "claude-code"},
     server_url : {"http://policy:9000", "http://localhost:8338"},
     default_policy_behavior : {ASK, DENY}]

\* the dicts a config file may hold
FileDicts == {[k \in D |-> full[k]] : full \in FullConfigs, D \in SUBSET ConfigKeys}

Files ==
    {[kind |-> "missing"], [kind |-> "invalid"], [kind |-> "unreadable"]}
    \cup {[kind |-> "json", value |-> d] : d \in FileDicts}

InitConfig ==
    /\ phase = "client"
    /\ registry = EmptyRegistry
    /\ evals = [i \in 1..1 |-> IdleEval]
    /\ ResolveIdle
    /\ home_file \in Files
    /\ project_file \in Files
    /\ DEFAULT_CONFIG = DEFAULT_CONFIG_0
    /\ config = NotLoaded
    /\ ClientIdle

\* ConfigManager.load_config
LoadConfig ==
    /\ phase = "client"
    /\ LET r == merge_configs(DEFAULT_CONFIG, load_config_file(home_file),
                              load_config_file(project_file))
       IN  /\ config' = r.merged
           /\ DEFAULT_CONFIG' = r.DEFAULT_CONFIG
    /\ UNCHANGED <<engine_vars, resolve_vars, home_file, project_file, client_vars>>

NextConfig == LoadConfig

SpecConfig == InitConfig /\ [][NextConfig]_vars

(***************************************************************************)
(* The splitting middleware on its own: one call on any tool-use event.    *)
(***************************************************************************)
InitSplit ==
    /\ phase = "middleware"
    /\ registry = EmptyRegistry
    /\ evals = [i \in 1..1 |-> IdleEval]
    /\ ResolveIdle
    /\ ConfigIdle
    /\ split_call \in
          {[pc |-> "called", input_data |-> ToolUseEvent(s, n, b, c)] :
              s \in {"s1", "s2"}, n \in {"Bash", "Read"}, b \in BOOLEAN,
              c \in Commands \cup {NoCommand, <<>>, C_pip_install \o SEP \o SEP \o W_ls,
                                   C_pip_install \o <<SP>> \o SEP \o <<TAB>> \o W_ls}}
    /\ hook = NoCall
    /\ claude_settings = [kind |-> "missing"]
    /\ cursor_hooks = [kind |-> "missing"]
    /\ cli = NoCall

\* the generator is run to its end
CallSplit ==
    /\ phase = "middleware"
    /\ split_call.pc = "called"
    /\ split_call' = [pc |-> "returned", input_data |-> split_call.input_data,
                      run |-> bash_split_middleware(split_call.input_data)]
    /\ UNCHANGED <<engine_vars, resolve_vars, config_vars, hook,
                   claude_settings, cursor_hooks, cli>>

NextSplit == CallSplit

SpecSplit == InitSplit /\ [][NextSplit]_vars

(***************************************************************************)
(* The client forwarding one hook payload.                                 *)
(***************************************************************************)
\* the payloads: with a hook_event_name, with an empty one, without one; the
\* servers: answering 200 with JSON, 200 without, 500, refusing the
\* connection, failing otherwise
InitHook ==
    /\ phase = "hook"
    /\ registry = EmptyRegistry
    /\ evals = [i \in 1..1 |-> IdleEval]
    /\ ResolveIdle
    /\ home_file \in
          {[kind |-> "missing"], [kind |-> "invalid"],
           [kind |-> "json", value |-> [server_url |-> "http://policy:9000"]],
           [kind |-> "json", value |-> [default_policy_behavior |-> DENY, editor |-> "cursor"]]}
    /\ project_file \in {[kind |-> "missing"],
                          [kind |-> "json", value |-> [server_url |-> "http://localhost:8338"]]}
    /\ DEFAULT_CONFIG = DEFAULT_CONFIG_0
    /\ config = NotLoaded
    /\ split_call = NoCall
    /\ hook \in {[pc |-> "called", editor |-> e, bundles |-> b, payload |-> p, server |-> s] :
                    e \in {"claude-code", "cursor"}, b \in {<<>>, <<"uv">>},
                    p \in {[hook_event_name |-> "PreToolUse", tool_name |-> "Bash"],
                           [hook_event_name |-> "", tool_name |-> "Bash"],
                           [tool_name |-> "Bash"]},
                    s \in {[kind |-> "response", status |-> 200, json |-> TRUE],
                           [kind |-> "response", status |-> 200, json |-> FALSE],
                           [kind |-> "response", status |-> 500, json |-> TRUE],
                           [kind |-> "refused"], [kind |-> "failure"]}}
    /\ claude_settings = [kind |-> "missing"]
    /\ cursor_hooks = [kind |-> "missing"]
    /\ cli = NoCall

\* forward_hook runs to its end
ForwardHook ==
    /\ phase = "hook"
    /\ hook.pc = "called"
    /\ LET r == merge_configs(DEFAULT_CONFIG, load_config_file(home_file),
                              load_config_file(project_file))
       IN  /\ config' = r.merged
           /\ DEFAULT_CONFIG' = r.DEFAULT_CONFIG
           /\ hook' = [pc |-> "done", editor |-> hook.editor, bundles |-> hook.bundles,
                       payload |-> hook.payload, server |-> hook.server,
                       outcome |-> forward_hook(r.merged, hook.editor, hook.bundles,
                                                hook.payload, hook.server)]
    /\ UNCHANGED <<engine_vars, resolve_vars, home_file, project_file,
                   split_call, claude_settings, cursor_hooks, cli>>

NextHook == ForwardHook

SpecHook == InitHook /\ [][NextHook]_vars

(***************************************************************************)
(* The install and uninstall commands, run in any order on the settings    *)
(* files of the two editors. One of the two files starts as any file of    *)
(* the sets below: two of the editor's events take any of the values, an   *)
(* event the client does not list and a setting next to "hooks" may be     *)
(* there.                                                                  *)
(***************************************************************************)
\* the values of an event in a Claude Code settings file: lists of groups
\* with and without our hook, a group holding our hook next to another,
\* values that are not lists, items that are no groups, hooks that are no
\* dicts or have no command
ClaudeValues ==
    LET H_ours == JDict(HOOK_CONFIG)
        H_other == JDict([type |-> "command", command |-> "lint-hook"])
        G_ours == JDict([hooks |-> <<H_ours>>])
        G_other == JDict([matcher |-> "Bash", hooks |-> <<H_other>>])
        G_both == JDict([hooks |-> <<H_ours, H_other>>])
    IN  {JList(<<>>), JList(<<G_ours>>), JList(<<G_other>>), JList(<<G_both>>),
         JList(<<G_other, G_ours>>), JList(<<G_ours, G_ours>>),
         JStr("disabled"), G_other, G_ours,
         JList(<<JStr("x"), JDict([matcher |-> "Bash"])>>),
         JList(<<JDict([hooks |-> <<JStr("x"), JDict([type |-> "command"]), H_other>>])>>)}

\* the values of an event in a Cursor hooks file
CursorValues ==
    LET C_ours == JDict([command |-> "devleaps-policy-client"])
        C_other == JDict([command |-> "lint-hook"])
    IN  {JList(<<>>), JList(<<C_ours>>), JList(<<C_other>>), JList(<<C_other, C_ours>>),
         JList(<<C_ours, C_other, C_ours>>), JStr("disabled"), C_other, C_ours,
         JList(<<JStr("x"), JDict([matcher |-> "Bash"])>>)}

\* the settings files: missing, not parseable, or an object with or without
\* the setting and with or without "hooks", which holds any of two listed
\* events and an event that is not listed
SettingsFiles(first, second, values, setting) ==
    LET HooksDicts ==
            {[e \in D |-> IF e = "Custom" THEN JList(<<JStr("x")>>)
                          ELSE IF e = first THEN v1 ELSE v2] :
                v1 \in values, v2 \in values, D \in SUBSET {first, second, "Custom"}}
    IN  {[kind |-> "missing"], [kind |-> "invalid"],
         [kind |-> "json", value |-> EmptyDict], [kind |-> "json", value |-> setting]}
        \cup {[kind |-> "json", value |-> [hooks |-> h]] : h \in HooksDicts}
        \cup {[kind |-> "json", value |-> Update(setting, [hooks |-> h])] : h \in HooksDicts}

InitInstall ==
    /\ phase = "install"
    /\ registry = EmptyRegistry
    /\ evals = [i \in 1..1 |-> IdleEval]
    /\ ResolveIdle
    /\ ConfigIdle
    /\ split_call = NoCall
    /\ hook = NoCall
    /\ \/ /\ claude_settings
                \in SettingsFiles("PreToolUse", "Stop", ClaudeValues, [model |-> "opus"])
          /\ cursor_hooks = [kind |-> "missing"]
       \/ /\ claude_settings = [kind |-> "missing"]
          /\ cursor_hooks
                \in SettingsFiles("beforeShellExecution", "stop", CursorValues,
                                  [version |-> 1])
    /\ cli = NoCall

\* the command line after a run
CommandLine(cmd, editor, before, ran) ==
    [cmd |-> cmd, editor |-> editor, prev |-> cli.cmd, prev_editor |-> cli.editor,
     before |-> before, code |-> ran.code, changes_made |-> ran.changes_made,
     wrote |-> ran.wrote]

\* devleaps-policy-client install [claude-code]
InstallClaude ==
    /\ phase = "install"
    /\ LET ran == install_claude_hooks(claude_settings)
       IN  /\ claude_settings' = ran.file
           /\ cli' = CommandLine("install", "claude-code", claude_settings, ran)
    /\ UNCHANGED <<engine_vars, resolve_vars, config_vars, split_call, hook, cursor_hooks>>

\* devleaps-policy-client install cursor
InstallCursor ==
    /\ phase = "install"
    /\ LET ran == install_cursor_hooks(cursor_hooks)
       IN  /\ cursor_hooks' = ran.file
           /\ cli' = CommandLine("install", "cursor", cursor_hooks, ran)
    /\ UNCHANGED <<engine_vars, resolve_vars, config_vars, split_call, hook, claude_settings>>

\* devleaps-policy-client uninstall [claude-code]
UninstallClaude ==
    /\ phase = "install"
    /\ LET ran == uninstall_claude_hooks(claude_settings)
       IN  /\ claude_settings' = ran.file
           /\ cli' = CommandLine("uninstall", "claude-code", claude_settings, ran)
    /\ UNCHANGED <<engine_vars, resolve_vars, config_vars, split_call, hook, cursor_hooks>>

\* devleaps-policy-client uninstall cursor
UninstallCursor ==
    /\ phase = "install"
    /\ LET ran == uninstall_cursor_hooks(cursor_hooks)
       IN  /\ cursor_hooks' = ran.file
           /\ cli' = CommandLine("uninstall", "cursor", cursor_hooks, ran)
    /\ UNCHANGED <<engine_vars, resolve_vars, config_vars, split_call, hook, claude_settings>>

NextInstall ==
    \/ InstallClaude
    \/ InstallCursor
    \/ UninstallClaude
    \/ UninstallCursor

SpecInstall == InitInstall /\ [][NextInstall]_vars

(***************************************************************************)
(* Properties.                                                             *)
(***************************************************************************)
\* the fixed total order HALT > DENY > ASK > ALLOW
Rank(a) == CASE a = HALT -> 4 [] a = DENY -> 3 [] a = ASK -> 2 [] a = ALLOW -> 1

\* action is the maximum of the decisions' actions
IsMaximum(decisions, action) ==
    /\ \E k \in 1..Len(decisions) : decisions[k].action = action
    /\ \A k \in 1..Len(decisions) : Rank(decisions[k].action) <= Rank(action)

Permuted(seq, p) == [k \in 1..Len(seq) |-> seq[p[k]]]

\* reg with the handlers of a variant in another registration order
Reordered(reg, variant, p) ==
    [reg EXCEPT !.handlers[variant] = Permuted(@, p)]

Done(i) == evals[i].pc = "done"

\* C1: the resolved action is the maximum of the collected decisions' actions
\* under HALT > DENY > ASK > ALLOW, for any list of decisions and for every
\* finished evaluation, and it is the same for every permutation of the
\* emission order and of the handlers' registration order.
C1_PrecedenceMaximum ==
    /\ (phase = "resolving" /\ verdict # NoVerdict /\ collected # <<>>) =>
          /\ IsMaximum(collected, verdict.action)
          /\ \A p \in Permutations(1..Len(collected)) :
                Verdict(Permuted(collected, p), <<>>, default_action).action = verdict.action
    /\ \A i \in DOMAIN evals :
          (Done(i) /\ evals[i].decisions # <<>>) =>
             /\ IsMaximum(evals[i].decisions, evals[i].result.action)
             /\ LET v == evals[i].given.variant
                IN  \A p \in Permutations(1..Len(handlers_for(registry, v))) :
                       evaluate(Reordered(registry, v, p), evals[i].bundles,
                                evals[i].default, evals[i].given).action
                          = evals[i].result.action

\* a later, higher-ranked decision wins over an earlier ALLOW
C1_Witness ==
    /\ phase = "resolving"
    /\ Len(collected) = 3
    /\ collected[1].action = ALLOW /\ collected[2].action = HALT /\ collected[3].action = DENY
    /\ verdict.action = HALT

\* the lookups of evaluation i
HS(i) == handlers_for(registry, evals[i].given.variant)
MS(i) == middleware_for(registry, evals[i].given.variant)

\* a handler entry is active for a request: it has no bundle, or its bundle is enabled
Active(entry, bundles) == entry.bundle = None \/ entry.bundle \in bundles

\* the runs of handler h on event ev in the log of evaluation i
RunsOf(i, ev, h) ==
    {k \in 1..Len(evals[i].runs) : evals[i].runs[k].ev = ev /\ evals[i].runs[k].h = h}

\* the entries of a collected list that handler h emitted on event ev
FromSlot(seq, ev, h) == SelectSeq(seq, LAMBDA x : x.ev = ev /\ x.h = h)

\* what handler h yields on surviving event ev of evaluation i
YieldOf(i, ev, h, kind) ==
    Tagged(CallHandler(HS(i)[h].fn, evals[i].events[ev]).out, kind, ev, h)

DefaultOrAllow(i) == IF evals[i].default = None THEN ALLOW ELSE evals[i].default

IsBash(i, command) == evals[i].given = ToolUseEvent("s1", "Bash", TRUE, command)

\* fn is registered for the event's variant and active for the request
HasActive(i, fn) ==
    \E h \in 1..Len(HS(i)) : HS(i)[h].fn = fn /\ Active(HS(i)[h], evals[i].bundles)

\* C2: when the middleware leaves n events, every active handler runs exactly
\* once on each of them, the decisions of all n events are collected and the
\* resolved action is their maximum; 'pip install && terraform apply' is split
\* into two sub-commands and resolves to DENY.
C2_FanOutCoverage ==
    \A i \in DOMAIN evals : Done(i) =>
       /\ \A ev \in 1..Len(evals[i].events), h \in 1..Len(HS(i)) :
             /\ Cardinality(RunsOf(i, ev, h))
                   = (IF Active(HS(i)[h], evals[i].bundles) THEN 1 ELSE 0)
             /\ Active(HS(i)[h], evals[i].bundles) =>
                   FromSlot(evals[i].decisions, ev, h) = YieldOf(i, ev, h, "decision")
       /\ evals[i].decisions # <<>> =>
             IsMaximum(evals[i].decisions, evals[i].result.action)
       /\ (IsBash(i, C_pip_and_apply) /\ MS(i) # <<>> /\ HasActive(i, "terraform_rule")) =>
             /\ Len(evals[i].events) = 2
             /\ evals[i].events[1].command = C_pip_install
             /\ evals[i].events[2].command = C_terraform_apply
             /\ evals[i].result.action = DENY

\* the compound command was split in two, all three rules ran on both halves
C2_Witness ==
    \E i \in DOMAIN evals :
       /\ Done(i) /\ IsBash(i, C_pip_and_apply)
       /\ Len(evals[i].events) = 2 /\ Len(evals[i].runs) = 6
       /\ evals[i].result.action = DENY

\* C3: a handler registered with a bundle that is not in the active set never
\* runs and contributes no decision and no guidance; a handler whose bundle
\* is active, or that has no bundle, runs on every surviving event; a bundle
\* name no registered handler carries changes nothing. With the example
\* registration 'python script.py' resolves to the default without "uv" and
\* to DENY with it.
C3_BundleGating ==
    \A i \in DOMAIN evals : Done(i) =>
       /\ \A h \in 1..Len(HS(i)) :
             IF HS(i)[h].bundle # None /\ HS(i)[h].bundle \notin evals[i].bundles
             THEN /\ \A k \in 1..Len(evals[i].runs) : evals[i].runs[k].h # h
                  /\ \A k \in 1..Len(evals[i].decisions) : evals[i].decisions[k].h # h
                  /\ \A k \in 1..Len(evals[i].guidance) : evals[i].guidance[k].h # h
             ELSE \A ev \in 1..Len(evals[i].events) : RunsOf(i, ev, h) # {}
       /\ \A B \in Bundles :
             (\A h \in 1..Len(HS(i)) : HS(i)[h].bundle # B) =>
                /\ evaluate(registry, evals[i].bundles \cup {B}, evals[i].default,
                            evals[i].given) = evals[i].result
                /\ evaluate(registry, evals[i].bundles \ {B}, evals[i].default,
                            evals[i].given) = evals[i].result
       /\ (registry = ExampleRegistry /\ IsBash(i, C_python_script)) =>
             evals[i].result.action
                = (IF "uv" \in evals[i].bundles THEN DENY ELSE DefaultOrAllow(i))

\* the uv rule is registered under "uv", the request enables only another
\* bundle, and the script resolves to the caller's default
C3_Witness ==
    \E i \in DOMAIN evals :
       /\ Done(i) /\ registry = ExampleRegistry /\ IsBash(i, C_python_script)
       /\ evals[i].bundles = {"strict"} /\ evals[i].default = ASK
       /\ Len(evals[i].runs) = 2
       /\ evals[i].result.action = ASK

\* C4: a handler that raises does not end the evaluation: every later active
\* handler still runs on the same event, what was yielded before the failure
\* is what is collected, and a verdict is returned; a bash event without a
\* command makes every example rule raise and resolves to the default.
C4_RuleIsolation ==
    \A i \in DOMAIN evals : Done(i) =>
       /\ evals[i].result.action \in PolicyAction
       /\ \A k \in 1..Len(evals[i].runs) : evals[i].runs[k].raised =>
             /\ \A h \in (evals[i].runs[k].h + 1)..Len(HS(i)) :
                   Active(HS(i)[h], evals[i].bundles) =>
                      RunsOf(i, evals[i].runs[k].ev, h) # {}
             /\ FromSlot(evals[i].decisions, evals[i].runs[k].ev, evals[i].runs[k].h)
                   = YieldOf(i, evals[i].runs[k].ev, evals[i].runs[k].h, "decision")
             /\ FromSlot(evals[i].guidance, evals[i].runs[k].ev, evals[i].runs[k].h)
                   = YieldOf(i, evals[i].runs[k].ev, evals[i].runs[k].h, "guidance")
       /\ IsBash(i, NoCommand) =>
             /\ \A h \in 1..Len(HS(i)) :
                   Active(HS(i)[h], evals[i].bundles) =>
                      \E k \in 1..Len(evals[i].runs) :
                         evals[i].runs[k].h = h /\ evals[i].runs[k].raised
             /\ evals[i].result.action = DefaultOrAllow(i)

\* all three rules raised on the event without a command, one after the
\* other, and the verdict is the default
C4_Witness ==
    \E i \in DOMAIN evals :
       /\ Done(i) /\ IsBash(i, NoCommand)
       /\ Len(evals[i].runs) = 3
       /\ \A k \in 1..3 : evals[i].runs[k].raised /\ evals[i].runs[k].h = k
       /\ evals[i].default = DENY /\ evals[i].result.action = DENY

\* C5: with no decision collected the resolved action is the caller's
\* default, ALLOW when there is none, and the reason is empty; with nothing
\* registered for the variant nothing runs and the guidance is empty. No
\* rule decides on 'ls', and the split drops ' && ' altogether.
C5_DefaultAction ==
    \A i \in DOMAIN evals : Done(i) =>
       /\ evals[i].decisions = <<>> =>
             /\ evals[i].result.action = DefaultOrAllow(i)
             /\ evals[i].result.reason = None
       /\ (HS(i) = <<>> /\ MS(i) = <<>>) =>
             /\ evals[i].runs = <<>> /\ evals[i].decisions = <<>>
             /\ evals[i].result.guidance = <<>>
       /\ IsBash(i, W_ls) => evals[i].decisions = <<>>
       /\ (IsBash(i, SEP) /\ MS(i) # <<>>) =>
             evals[i].events = <<>> /\ evals[i].runs = <<>> /\ evals[i].decisions = <<>>

\* the split dropped the event, no rule ran, the caller's DENY is the verdict
C5_Witness ==
    \E i \in DOMAIN evals :
       /\ Done(i) /\ IsBash(i, SEP) /\ MS(i) # <<>> /\ Len(HS(i)) = 3
       /\ evals[i].events = <<>>
       /\ evals[i].default = DENY /\ evals[i].result.action = DENY

\* emitted earlier: the event first, then the handler, then the handler's own yields
EmittedBefore(a, b) ==
    \/ a.ev < b.ev
    \/ a.ev = b.ev /\ a.h < b.h
    \/ a.ev = b.ev /\ a.h = b.h /\ a.y < b.y

\* the first-emitted decision of a non-empty list that holds the action
FirstEmitted(decisions, action) ==
    LET at == {decisions[k] : k \in {j \in 1..Len(decisions) : decisions[j].action = action}}
    IN  CHOOSE d \in at : \A d2 \in at : d = d2 \/ EmittedBefore(d, d2)

\* C6: the reported reason is the reason of the first-emitted decision that
\* holds the resolved action (events first, then handlers in registration
\* order, then a handler's own yields), and empty when nothing was emitted; an
\* earlier decision of lower precedence never supplies it.
C6_ReasonOfFirst ==
    /\ (phase = "resolving" /\ verdict # NoVerdict) =>
          verdict.reason = (IF collected = <<>> THEN None
                            ELSE FirstEmitted(collected, verdict.action).reason)
    /\ \A i \in DOMAIN evals : Done(i) =>
          /\ evals[i].result.reason
                = (IF evals[i].decisions = <<>> THEN None
                   ELSE FirstEmitted(evals[i].decisions, evals[i].result.action).reason)
          /\ \A ev \in 1..Len(evals[i].events), h \in 1..Len(HS(i)) :
                Active(HS(i)[h], evals[i].bundles) =>
                   FromSlot(evals[i].decisions, ev, h) = YieldOf(i, ev, h, "decision")
          /\ (IsBash(i, C_terraform_apply) /\ HasActive(i, "terraform_rule")) =>
                evals[i].result.reason = R_TERRAFORM
          /\ (IsBash(i, C_plan_and_apply) /\ MS(i) # <<>> /\ HasActive(i, "terraform_rule")) =>
                evals[i].result.action = DENY /\ evals[i].result.reason = R_TERRAFORM
          /\ (IsBash(i, C_pip_and_apply) /\ MS(i) # <<>>
                /\ HasActive(i, "terraform_rule") /\ HasActive(i, "uv_bundle_rule")) =>
                evals[i].result.reason = R_UV_PIP
          /\ (IsBash(i, C_python_m_pip_test)
                /\ HasActive(i, "python_test_file_rule") /\ HasActive(i, "uv_bundle_rule")) =>
                \E h1, h2 \in 1..Len(HS(i)) :
                   /\ HS(i)[h1].fn = "python_test_file_rule"
                   /\ HS(i)[h2].fn = "uv_bundle_rule"
                   /\ evals[i].result.reason = (IF h1 < h2 THEN R_PYTEST ELSE R_UV_MPIP)

\* terraform_rule is registered before uv_bundle_rule, yet the DENY the uv
\* rule gave on the first sub-command supplies the reason
C6_Witness ==
    \E i \in DOMAIN evals :
       /\ Done(i) /\ IsBash(i, C_pip_and_apply) /\ Len(evals[i].events) = 2
       /\ Len(HS(i)) = 3
       /\ HS(i)[1].fn = "terraform_rule" /\ HS(i)[3].fn = "uv_bundle_rule"
       /\ Len(evals[i].decisions) = 2
       /\ evals[i].result.action = DENY /\ evals[i].result.reason = R_UV_PIP

\* the guidance the active handlers yield on the surviving events of
\* evaluation i, from event ev and handler h on, in emission order
RECURSIVE GuidanceFrom(_, _, _)
GuidanceFrom(i, ev, h) ==
    IF ev > Len(evals[i].events) THEN <<>>
    ELSE IF h > Len(HS(i)) THEN GuidanceFrom(i, ev + 1, 1)
    ELSE (IF Active(HS(i)[h], evals[i].bundles)
          THEN LET g == YieldOf(i, ev, h, "guidance")
               IN  [k \in 1..Len(g) |-> g[k].content]
          ELSE <<>>) \o GuidanceFrom(i, ev, h + 1)

\* C7: the verdict carries every guidance an active handler yielded on a
\* surviving event, in emission order, whatever the resolved action;
\* changing or removing the decisions leaves the guidance as it is, and the
\* guidance does not change the action. 'python test_a.py' is denied and
\* still carries the pytest guidance.
C7_GuidanceIndependence ==
    \A i \in DOMAIN evals : Done(i) =>
       /\ evals[i].result.guidance = GuidanceFrom(i, 1, 1)
       /\ \A a \in PolicyAction :
             Verdict([k \in 1..Len(evals[i].decisions) |->
                         [evals[i].decisions[k] EXCEPT !.action = a]],
                     evals[i].guidance, evals[i].default).guidance
                = evals[i].result.guidance
       /\ Verdict(<<>>, evals[i].guidance, evals[i].default).guidance
             = evals[i].result.guidance
       /\ Verdict(evals[i].decisions, <<>>, evals[i].default).action
             = evals[i].result.action
       /\ (IsBash(i, C_python_test) /\ HasActive(i, "python_test_file_rule")) =>
             /\ evals[i].result.action = DENY
             /\ \E k \in 1..Len(evals[i].result.guidance) :
                   evals[i].result.guidance[k] = G_PYTEST

\* a denied command whose guidance is returned all the same
C7_Witness ==
    \E i \in DOMAIN evals :
       /\ Done(i) /\ IsBash(i, C_python_test)
       /\ evals[i].result.action = DENY
       /\ evals[i].result.guidance = <<G_PYTEST>>

\* C8: the evaluation of a bash command gives the verdict of the evaluation
\* of the trimmed command.
C8_TrimmedSame ==
    \A i \in DOMAIN evals :
       (Done(i) /\ evals[i].given.variant = "ToolUseEvent") =>
          ((evals[i].given.tool_is_bash /\ evals[i].given.command # NoCommand) =>
              evals[i].result
                 = evaluate(registry, evals[i].bundles, evals[i].default,
                            [evals[i].given EXCEPT !.command = strip(@)]))

\* C9: whatever the interleaving, the registry stays as it was built, an
\* evaluation's input event stays as it was given, a slot keeps nothing of
\* the evaluation before, and every evaluation returns the action, reason
\* and guidance it returns when it is run alone.
C9_Isolation ==
    /\ registry = ExampleRegistry
    /\ \A i \in DOMAIN evals :
          /\ evals[i].pc = "idle" => evals[i] = IdleEval
          /\ evals[i].input = evals[i].given
          /\ Done(i) =>
                evals[i].result
                   = evaluate(ExampleRegistry, evals[i].bundles, evals[i].default,
                              evals[i].given)

\* one evaluation has returned DENY with guidance while another, of another
\* request, is in the middle of its handler stage
C9_Witness ==
    \E i, j \in DOMAIN evals :
       /\ i # j
       /\ Done(i) /\ IsBash(i, C_pip_and_apply) /\ evals[i].bundles = {"uv"}
       /\ evals[i].result.action = DENY /\ evals[i].result.guidance = <<G_UV_PIP>>
       /\ evals[j].pc = "handlers" /\ evals[j].pos = 2 /\ IsBash(j, NoCommand)
       /\ evals[j].runs # <<>>

\* a file that is missing or cannot be loaded counts as an empty config
FileConfig(file) == IF file.kind = "json" THEN file.value ELSE EmptyDict

RECURSIVE Segments(_, _)
Segments(s, from) ==
    LET hits == {p \in from..Len(s) : OccursAt(s, p, SEP)}
    IN  IF hits = {} THEN <<SubSeq(s, from, Len(s))>>
        ELSE LET p == CHOOSE q \in hits : \A r \in hits : q <= r
             IN  <<SubSeq(s, from, p - 1)>> \o Segments(s, p + Len(SEP))

\* s without its leading and trailing whitespace
RECURSIVE Trimmed(_)
Trimmed(s) ==
    IF s = <<>> THEN s
    ELSE IF IsWs(Head(s)) THEN Trimmed(Tail(s))
    ELSE IF IsWs(s[Len(s)]) THEN Trimmed(SubSeq(s, 1, Len(s) - 1))
    ELSE s

\* the non-empty trimmed sub-commands of a command, left to right
SubCommands(command) ==
    LET pieces == Segments(command, 1)
        trimmed == [k \in 1..Len(pieces) |-> Trimmed(pieces[k])]
    IN  SelectSeq(trimmed, LAMBDA c : c # <<>>)

\* C12: a call of bash_split_middleware ends without raising and leaves its
\* argument as it was; for a bash event whose command holds ' && ' it yields
\* one event per non-empty trimmed sub-command, left to right, each the
\* input event with only the command replaced; for any other event (not
\* bash, no command, an empty command, no ' && ') it yields exactly the
\* input event.
C12_SplitEvents ==
    split_call.pc = "returned" =>
       LET x == split_call.input_data
           r == split_call.run
       IN  /\ ~r.raised
           /\ r.arg = x
           /\ IF x.tool_is_bash /\ x.command # NoCommand /\ Contains(x.command, SEP)
              THEN LET cmds == SubCommands(x.command)
                   IN  /\ Len(r.out) = Len(cmds)
                       /\ \A k \in 1..Len(cmds) :
                             /\ r.out[k].command = cmds[k]
                             /\ r.out[k] = [x EXCEPT !.command = cmds[k]]
              ELSE r.out = <<x>>

\* 'pip install &&  && ls' was split in two, the empty piece dropped, and
\* so was 'pip install  && \tls', its pieces trimmed
C12_Witness ==
    /\ split_call.pc = "returned"
    /\ split_call.input_data
          \in {ToolUseEvent("s2", "Bash", TRUE, C_pip_install \o SEP \o SEP \o W_ls),
               ToolUseEvent("s2", "Bash", TRUE,
                            C_pip_install \o <<SP>> \o SEP \o <<TAB>> \o W_ls)}
    /\ Len(split_call.run.out) = 2
    /\ split_call.run.out[1].command = C_pip_install
    /\ split_call.run.out[2].command = W_ls
    /\ split_call.run.out[2].session_id = "s2"
    /\ split_call.run.arg = split_call.input_data

\* C11: a call of forward_hook ends by returning an exit code, never by
\* raising; for a payload without hook_event_name the code is 2 and nothing
\* was posted; otherwise one request was posted, to
\* /policy/{editor}/{hook_event_name} with bundles, default_policy_behavior
\* and the payload as event, and the code is 0 exactly when the server
\* answered 200 with a JSON body, and 2 otherwise.
C11_ExitCode ==
    hook.pc = "done" =>
       LET o == hook.outcome
           name == IF "hook_event_name" \in DOMAIN hook.payload
                   THEN hook.payload["hook_event_name"] ELSE ""
       IN  /\ o.kind = "returned"
           /\ IF name = ""
              THEN o.code = 2 /\ o.requests = <<>>
              ELSE /\ Len(o.requests) = 1
                   /\ SubSeq(o.requests[1].url, 2, 5)
                         = <<"/policy/", hook.editor, "/", name>>
                   /\ o.requests[1].json.bundles = hook.bundles
                   /\ o.requests[1].json.event = hook.payload
                   /\ "default_policy_behavior" \in DOMAIN o.requests[1].json
                   /\ o.code \in {0, 2}
                   /\ o.code = 0 <=> (/\ hook.server.kind = "response"
                                      /\ hook.server.status = 200
                                      /\ hook.server.json)

\* the file of an editor, its "hooks" dict, the events the client lists for it
FileOf(editor) == IF editor = "claude-code" THEN claude_settings ELSE cursor_hooks
HooksOf(file) ==
    IF file.kind = "json" /\ "hooks" \in DOMAIN file.value THEN file.value["hooks"]
    ELSE EmptyDict
Listed(editor) ==
    IF editor = "claude-code"
    THEN {CLAUDE_HOOK_EVENTS[k] : k \in 1..Len(CLAUDE_HOOK_EVENTS)}
    ELSE {CURSOR_HOOK_EVENTS[k] : k \in 1..Len(CURSOR_HOOK_EVENTS)}

\* a hook entry that runs devleaps-policy-client
Ours(h) ==
    /\ "dict" \in DOMAIN h
    /\ "command" \in DOMAIN h.dict
    /\ h.dict["command"] = "devleaps-policy-client"

\* the hook entries of a group, none for an item that is no group
HooksIn(item) ==
    IF "dict" \in DOMAIN item /\ "hooks" \in DOMAIN item.dict THEN item.dict["hooks"] ELSE <<>>

\* the hook entries under an event's value: for Claude Code those of its
\* groups, for Cursor its items; a value that is not a list counts as one item
RECURSIVE Flat(_)
Flat(items) == IF items = <<>> THEN <<>> ELSE HooksIn(Head(items)) \o Flat(Tail(items))
ItemsOf(val) == IF "list" \in DOMAIN val THEN val.list ELSE <<val>>
HookEntries(editor, val) ==
    IF editor = "claude-code" THEN Flat(ItemsOf(val)) ELSE ItemsOf(val)

\* how many devleaps-policy-client entries an event has in a file
Entries(editor, file, e) ==
    IF e \notin DOMAIN HooksOf(file) THEN 0
    ELSE Len(SelectSeq(HookEntries(editor, HooksOf(file)[e]), Ours))

Foreign(editor, val) ==
    IF "list" \notin DOMAIN val THEN [value |-> <<val>>, items |-> <<>>, entries |-> <<>>]
    ELSE [value |-> <<>>,
          items |-> SelectSeq(val.list,
                              LAMBDA item : SelectSeq(HookEntries(editor, JList(<<item>>)),
                                                      Ours) = <<>>),
          entries |-> SelectSeq(HookEntries(editor, val), LAMBDA h : ~Ours(h))]

\* C14: an install or uninstall run on an existing settings file keeps every
\* top-level setting other than "hooks", every event the client does not
\* list, and under every listed event every item, group and hook entry that
\* is not the devleaps-policy-client hook, also for a value that is not a
\* list; a file that could not be parsed is left as it is; after an uninstall
\* run no devleaps-policy-client entry is left under a listed event.
C14_FrameOnly ==
    (cli.cmd # "none" /\ cli.before.kind # "missing") =>
       LET before == cli.before
           after == FileOf(cli.editor)
       IN  /\ before.kind = "invalid" => after = before
           /\ before.kind = "json" =>
                 /\ after.kind = "json"
                 /\ \A k \in DOMAIN before.value \ {"hooks"} :
                       k \in DOMAIN after.value /\ after.value[k] = before.value[k]
                 /\ \A e \in DOMAIN HooksOf(before) :
                       /\ e \in DOMAIN HooksOf(after)
                       /\ IF e \in Listed(cli.editor)
                          THEN Foreign(cli.editor, HooksOf(after)[e])
                                  = Foreign(cli.editor, HooksOf(before)[e])
                          ELSE HooksOf(after)[e] = HooksOf(before)[e]
           /\ cli.cmd = "uninstall" =>
                 \A e \in Listed(cli.editor) : Entries(cli.editor, after, e) = 0

====
